---- MODULE Spec2Model ----
(***************************************************************************)
(* The crawl-and-ingest pipeline of the DevDocs scraper                    *)
(* (src/lib/devdocs-scraper.ts): DevDocsScraper.scrapeDoc and the methods  *)
(* it calls, run against a job store (scraping_jobs) and a content store   *)
(* (knowledge_content).                                                    *)
(*                                                                         *)
(* One crawl run is a call of scrapeDoc(docSlug, jobId, onProgress).  Its  *)
(* position is pc[r]; every await of the source is a step of its own, so   *)
(* that the fetches of one batch, which Promise.all starts together, may   *)
(* finish in any order.                                                    *)
(***************************************************************************)
EXTENDS Integers, Sequences, FiniteSets, TLC

VARIABLES
    runs,          \* the crawl runs of this behaviour (subset of RunIds)
    concurrency,   \* this.config.concurrency of the shared scraper
    sourceId,      \* this.sourceId of the shared scraper
    store,         \* knowledge_content: url -> entry or Null
    job,           \* scraping_jobs: run -> job record
    pc,            \* run -> position in scrapeDoc
    entries,       \* run -> manifest (sequence of paths)
    i,             \* run -> loop variable i of the batch loop
    inflight,      \* run -> indices of the scrapePage calls in flight
    results,       \* run -> index -> ScrapeResult of the batch or Null
    j,             \* run -> index of the result the inner loop is at
    successCount,  \* run -> local successCount
    failedCount,   \* run -> local failedCount
    existing,      \* run -> `existing` of the saveContent call in progress
    error,         \* run -> the error scrapeDoc rejected with, or Null
    groups,        \* history: run -> the batches dispatched so far
    failedItems,   \* history: run -> indices whose fetch failed
    lost,          \* history: run -> some updateJob of the run was not applied
    reported,      \* history: run -> the values of `processed` passed to updateJob
    decided,       \* history: run -> how many results saveContent inserted (new),
                   \*          updated (changed) and skipped (unchanged)
    calls,         \* history: run -> the `updates` of its calls of updateJob
    pauses,        \* history: run -> how many times it awaited this.delay
    req,           \* api/scrape handler: the request (method, authorization)
    res,           \* the response sent, Null before
    hpc,           \* the handler's position
    source,        \* the knowledge_sources row of DevDocs, Null if none
    docIndex,      \* position in DOCS_TO_SCRAPE of the set being scraped
    indexEntries,  \* entries.length of the index of that set
    batchStart,    \* the batch loop's i
    totalScraped,
    totalErrors,
    upserted,      \* the rows of knowledge_content the handler upserted
    log            \* history: the fetches, store calls and throws of the handler

vars == <<runs, concurrency, sourceId, store, job, pc,
          entries, i, inflight, results, j, successCount, failedCount, existing,
          error, groups, failedItems, lost, reported, decided, calls, pauses,
          req, res, hpc, source, docIndex, indexEntries, batchStart,
          totalScraped, totalErrors, upserted, log>>

\* the variables of the api/scrape handler
handlerVars == <<req, res, hpc, source, docIndex, indexEntries, batchStart,
                 totalScraped, totalErrors, upserted, log>>

\* the variables of the scraper class and its runs
scraperVars == <<runs, concurrency, sourceId, store, job, pc,
                 entries, i, inflight, results, j, successCount, failedCount,
                 existing, error, groups, failedItems, lost, reported, decided,
                 calls, pauses>>

----------------------------------------------------------------------------
(* Bounds of the model *)

MaxEntries == 3
MaxConcurrency == 2

\* the iterations of the batch loop the model follows a run for
MaxIterations == MaxEntries + 1

\* the length of a manifest: interleaved runs are followed for manifests of
\* up to two entries each
ManifestBound(active) ==
    IF Cardinality(active) <= 1 THEN MaxEntries
    ELSE IF MaxEntries <= 2 THEN MaxEntries ELSE 2

\* entries of a documentation set's index.json
MaxIndexEntries == 3

RunIds == {1, 2}
\* the pages a fetch may return: body text and code blocks
Pages == {[content |-> "a", codeSnippets |-> "x"],
          [content |-> "a", codeSnippets |-> "y"],
          [content |-> "b", codeSnippets |-> "x"]}

(* Program constants *)

DefaultConcurrency == 3

\* null as an object reference, and null as a string
Null == <<>>
None == "null"
DocSlug == "react"
SourceRowId == "devdocs-source"
Terminal == {"completed", "failed", "cancelled"}

Min(a, b) == IF a <= b THEN a ELSE b

Max(a, b) == IF a >= b THEN a ELSE b

----------------------------------------------------------------------------
(* Data *)

\* url = `${DEVDOCS_BASE}/${docSlug}/${entry.path}`
UrlOf(docSlug, path) == <<"https://devdocs.io", docSlug, path>>

Urls == {UrlOf(DocSlug, p) : p \in 1..MaxEntries}

\* crypto.createHash('sha256').update(result.content).digest('hex')
Sha256(text) == <<"sha256", text>>

\* mutant of ContentHash: the digest also covers the code blocks
ContentHashWithCode(result) == Sha256(result.content \o result.codeSnippets)

\* const contentHash = sha256(result.content)
ContentHash(result) == Sha256(result.content)

\* the ScrapeResult scrapePage returns when the fetch succeeded
SuccessResult(url, content, snippets) ==
    [success |-> TRUE, url |-> url, content |-> content, codeSnippets |-> snippets]

\* the ScrapeResult scrapePage returns from its catch block
FailureResult(url) ==
    [success |-> FALSE, url |-> url, content |-> "", codeSnippets |-> "none"]

\* contentData of saveContent
ContentData(result) ==
    [url |-> result.url, content |-> result.content,
     code_snippets |-> result.codeSnippets, content_hash |-> ContentHash(result)]

\* config.concurrency = config?.concurrency || 3
Constructor(config) ==
    IF "concurrency" \in DOMAIN config /\ config.concurrency # 0
    THEN config.concurrency
    ELSE DefaultConcurrency

\* the configurations a scraper is constructed with
Configs == {Null} \cup {[concurrency |-> k] : k \in 0..MaxConcurrency}

\* configurations with a negative concurrency, which the constructor keeps
SignedConfigs == Configs \cup {[concurrency |-> -k] : k \in 1..MaxConcurrency}

\* progress_percentage, an exact fraction num/den
Zero == [num |-> 0, den |-> 1]

\* the job record at creation: pending, all counters zero
NewJob ==
    [status |-> "pending", total_urls |-> 0, urls_processed |-> 0,
     urls_failed |-> 0, progress_percentage |-> Zero, items_scraped |-> 0,
     items_new |-> 0, items_updated |-> 0, items_unchanged |-> 0,
     error_message |-> None, started_at |-> None, completed_at |-> None]

\* .update(updates).eq('id', jobId): a partial merge of the named fields
Merge(rec, updates) ==
    [f \in DOMAIN rec |-> IF f \in DOMAIN updates THEN updates[f] ELSE rec[f]]

----------------------------------------------------------------------------
(* The expressions of scrapeDoc *)

\* for (...; i < entries.length; ...)
LoopCond(iv, n) == iv < n

\* mutant of Batch: the slice ends one entry late, entries.slice(i, i + k + 1)
BatchOverlap(iv, k, n) == [x \in 1..(Min(iv + k + 1, n) - iv) |-> iv + x]

\* mutant of Batch: the slice has no end, entries.slice(i)
BatchRest(iv, k, n) == [x \in 1..(n - iv) |-> iv + x]

\* Array.prototype.slice's reading of a start or end index x for length n: a
\* negative index counts from the end, and the result is clamped to 0..n
SliceIndex(x, n) == IF x < 0 THEN Max(n + x, 0) ELSE Min(x, n)

\* entries.slice(i, i + concurrency), as the indices (1-based) of the slice
Batch(iv, k, n) ==
    [x \in 1..(SliceIndex(iv + k, n) - SliceIndex(iv, n)) |->
        SliceIndex(iv, n) + x]

\* mutant of Processed: the failures are left out
ProcessedSuccessOnly(s, f) == s

\* const processed = successCount + failedCount
Processed(s, f) == s + f

\* mutant of Progress: the share of the entries still to process
ProgressRemaining(processed, total) ==
    [num |-> (total - processed) * 100, den |-> total]

\* const progress = (processed / total) * 100
Progress(processed, total) == [num |-> processed * 100, den |-> total]

\* if (i + this.config.concurrency < entries.length) delay
\* mutant of MoreBatches: the delay follows every batch
MoreBatchesAlways(iv, k, n) == TRUE

MoreBatches(iv, k, n) == iv + k < n

\* the updates of the first updateJob call
StartUpdates(total) ==
    [total_urls |-> total, status |-> "running", started_at |-> "now"]

\* the updates of the updateJob call after each result
ProgressUpdates(s, f, total) ==
    [urls_processed |-> Processed(s, f), urls_failed |-> f,
     progress_percentage |-> Progress(Processed(s, f), total),
     items_scraped |-> s]

\* the updates of the last updateJob call
CompleteUpdates == [status |-> "completed", completed_at |-> "now"]

\* mutant of Unchanged: no result is taken as unchanged
UnchangedNever(ex, hash) == FALSE

\* if (existing && existing.content_hash === contentHash) return
Unchanged(ex, hash) == ex # Null /\ ex.content_hash = hash

----------------------------------------------------------------------------
(* State *)

Upd(f, r, v) == [f EXCEPT ![r] = v]

NoneDecided == [new |-> 0, changed |-> 0, unchanged |-> 0]

\* one more result of run r with the given outcome of saveContent
Count(r, outcome) ==
    Upd(decided, r, [decided[r] EXCEPT ![outcome] = decided[r][outcome] + 1])

NoResults == [x \in 1..MaxEntries |-> Null]

\* entries already in knowledge_content before the run
InitialEntries == {ContentData(SuccessResult(u, "a", "x")) : u \in Urls}

InitialStores ==
    {s \in [Urls -> {Null} \cup InitialEntries] :
        \A u \in Urls : s[u] # Null => s[u].url = u}

InitScraper(active, configs) ==
    /\ runs = active
    /\ concurrency \in {Constructor(c) : c \in configs}
    /\ sourceId = None
    /\ store \in InitialStores
    /\ job = [r \in RunIds |-> NewJob]
    /\ pc = [r \in RunIds |-> IF r \in active THEN "created" ELSE "idle"]
    /\ entries = [r \in RunIds |-> <<>>]
    /\ i = [r \in RunIds |-> 0]
    /\ inflight = [r \in RunIds |-> {}]
    /\ results = [r \in RunIds |-> NoResults]
    /\ j = [r \in RunIds |-> 0]
    /\ successCount = [r \in RunIds |-> 0]
    /\ failedCount = [r \in RunIds |-> 0]
    /\ existing = [r \in RunIds |-> Null]
    /\ error = [r \in RunIds |-> None]
    /\ groups = [r \in RunIds |-> <<>>]
    /\ failedItems = [r \in RunIds |-> {}]
    /\ lost = [r \in RunIds |-> FALSE]
    /\ reported = [r \in RunIds |-> <<>>]
    /\ decided = [r \in RunIds |-> NoneDecided]
    /\ calls = [r \in RunIds |-> <<>>]
    /\ pauses = [r \in RunIds |-> 0]

\* the handler's locals before a request arrives / at the top of handler
HandlerLocals ==
    /\ res = Null
    /\ source = Null
    /\ docIndex = 0
    /\ indexEntries = 0
    /\ batchStart = 0
    /\ totalScraped = 0
    /\ totalErrors = 0
    /\ upserted = {}
    /\ log = <<>>

\* no request to api/scrape
NoRequest ==
    /\ req = Null
    /\ hpc = "none"
    /\ HandlerLocals

InitWith(active, configs) == InitScraper(active, configs) /\ NoRequest

InitRun(active) == InitWith(active, Configs)

Init == InitRun({1})

\* the local `total` of scrapeDoc
Total(r) == Len(entries[r])

\* the result the inner loop is at
Result(r) == results[r][j[r]]

----------------------------------------------------------------------------
(* updateJob: the store applies the update, or fails and the error is only
   logged; either way updateJob returns normally *)

UpdateJob(r, updates, applied) ==
    /\ job' = IF applied THEN Upd(job, r, Merge(job[r], updates)) ELSE job
    /\ lost' = IF applied THEN lost ELSE Upd(lost, r, TRUE)
    /\ calls' = Upd(calls, r, Append(calls[r], updates))

----------------------------------------------------------------------------
(* scrapeDoc *)

\* const entries = await this.getDocEntries(docSlug): the manifest arrives
\* mutant of GetDocEntries: the batch loop follows without the start update
GetDocEntriesUnstarted(r) ==
    /\ pc[r] = "created"
    /\ \E n \in 0..MaxEntries :
          entries' = Upd(entries, r, [x \in 1..n |-> x])
    /\ i' = Upd(i, r, 0)
    /\ pc' = Upd(pc, r, "loop")
    /\ UNCHANGED <<runs, concurrency, sourceId, store, job, inflight, results,
                   j, successCount, failedCount, existing, error, groups,
                   failedItems, lost, reported, decided, calls, pauses,
                   handlerVars>>

GetDocEntries(r) ==
    /\ pc[r] = "created"
    /\ \E n \in 0..ManifestBound(runs) :
          entries' = Upd(entries, r, [x \in 1..n |-> x])
    /\ pc' = Upd(pc, r, "start")
    /\ UNCHANGED <<runs, concurrency, sourceId, store, job, i, inflight, results,
                   j, successCount, failedCount, existing, error, groups,
                   failedItems, lost, reported, decided, calls, pauses,
                   handlerVars>>

\* mutant of GetDocEntriesThrows: the error is swallowed and the run goes on
\* with an empty manifest
GetDocEntriesSwallowed(r) ==
    /\ pc[r] = "created"
    /\ pc' = Upd(pc, r, "start")
    /\ error' = Upd(error, r, "ManifestUnavailable")
    /\ UNCHANGED <<runs, concurrency, sourceId, store, job, entries, i, inflight,
                   results, j, successCount, failedCount, existing, groups,
                   failedItems, lost, reported, decided, calls, pauses,
                   handlerVars>>

\* getDocEntries throws (non-2xx, network error, malformed manifest) and
\* scrapeDoc rejects before its first updateJob
GetDocEntriesThrows(r) ==
    /\ pc[r] = "created"
    /\ pc' = Upd(pc, r, "rejected")
    /\ error' = Upd(error, r, "ManifestUnavailable")
    /\ UNCHANGED <<runs, concurrency, sourceId, store, job, entries, i, inflight,
                   results, j, successCount, failedCount, existing, groups,
                   failedItems, lost, reported, decided, calls, pauses,
                   handlerVars>>

\* await this.updateJob(jobId, {total_urls, status: 'running', started_at})
Start(r) ==
    /\ pc[r] = "start"
    /\ \E applied \in BOOLEAN : UpdateJob(r, StartUpdates(Total(r)), applied)
    /\ i' = Upd(i, r, 0)
    /\ pc' = Upd(pc, r, "loop")
    /\ UNCHANGED <<runs, concurrency, sourceId, store, entries, inflight, results,
                   j, successCount, failedCount, existing, error, groups,
                   failedItems, reported, decided, pauses,
                   handlerVars>>

\* loop test true: batch = entries.slice(...); batch.map(scrapePage) starts
\* one fetch per entry of the batch
Dispatch(r) ==
    /\ pc[r] = "loop"
    /\ LoopCond(i[r], Total(r))
    /\ Len(groups[r]) < MaxIterations
    /\ LET batch == Batch(i[r], concurrency, Total(r)) IN
          /\ inflight' = Upd(inflight, r, {batch[x] : x \in DOMAIN batch})
          /\ groups' = Upd(groups, r, Append(groups[r], batch))
    /\ results' = Upd(results, r, NoResults)
    /\ pc' = Upd(pc, r, IF Len(Batch(i[r], concurrency, Total(r))) = 0
                          THEN "batchEnd" ELSE "fetching")
    /\ UNCHANGED <<runs, concurrency, sourceId, store, job, entries, i, j,
                   successCount, failedCount, existing, error, failedItems, lost,
                   reported, decided, calls, pauses,
                   handlerVars>>

\* mutant of AfterFetch: the results are processed as soon as one fetch of
\* the batch has finished
AfterFetchFirst(r, left) ==
    /\ pc' = Upd(pc, r, "result")
    /\ j' = Upd(j, r, i[r] + 1)

\* Promise.all resolves when the last fetch of the batch has: the inner loop
\* starts at the first result, or the batch was empty
AfterFetch(r, left) ==
    IF left = {}
    THEN /\ pc' = Upd(pc, r, "result")
         /\ j' = Upd(j, r, i[r] + 1)
    ELSE UNCHANGED <<pc, j>>

\* scrapePage of one entry returns a successful result
ScrapePageOk(r) ==
    /\ pc[r] = "fetching"
    /\ \E x \in inflight[r], page \in Pages :
          /\ results' = Upd(results, r,
                 [results[r] EXCEPT
                     ![x] = SuccessResult(UrlOf(DocSlug, entries[r][x]),
                                          page.content, page.codeSnippets)])
          /\ inflight' = Upd(inflight, r, inflight[r] \ {x})
          /\ AfterFetch(r, inflight[r] \ {x})
    /\ UNCHANGED <<runs, concurrency, sourceId, store, job, entries, i,
                   successCount, failedCount, existing, error, groups,
                   failedItems, lost, reported, decided, calls, pauses,
                   handlerVars>>

\* scrapePage of one entry catches a fetch error and returns a failure result
ScrapePageFails(r) ==
    /\ pc[r] = "fetching"
    /\ \E x \in inflight[r] :
          /\ results' = Upd(results, r,
                 [results[r] EXCEPT
                     ![x] = FailureResult(UrlOf(DocSlug, entries[r][x]))])
          /\ inflight' = Upd(inflight, r, inflight[r] \ {x})
          /\ failedItems' = Upd(failedItems, r, failedItems[r] \cup {x})
          /\ AfterFetch(r, inflight[r] \ {x})
    /\ UNCHANGED <<runs, concurrency, sourceId, store, job, entries, i,
                   successCount, failedCount, existing, error, groups, lost,
                   reported, decided, calls, pauses,
                   handlerVars>>

\* mutant of ResultFailed: the failure is not counted
ResultFailedUncounted(r) ==
    /\ pc[r] = "result"
    /\ ~Result(r).success
    /\ pc' = Upd(pc, r, "update")
    /\ UNCHANGED <<runs, concurrency, sourceId, store, job, entries, i, inflight,
                   results, j, successCount, failedCount, existing, error,
                   groups, failedItems, lost, reported, decided, calls,
                   pauses,
                   handlerVars>>

\* for (const result of results): a failure result is counted as failed
ResultFailed(r) ==
    /\ pc[r] = "result"
    /\ ~Result(r).success
    /\ failedCount' = Upd(failedCount, r, failedCount[r] + 1)
    /\ pc' = Upd(pc, r, "update")
    /\ UNCHANGED <<runs, concurrency, sourceId, store, job, entries, i, inflight,
                   results, j, successCount, existing, error, groups,
                   failedItems, lost, reported, decided, calls, pauses,
                   handlerVars>>

\* mutant of SaveReturns: the result is not counted
SaveReturnsUncounted(r) ==
    /\ pc' = Upd(pc, r, "update")
    /\ UNCHANGED successCount

\* mutant of SaveReturns: the success counter is a field of the scraper,
\* shared by its runs
SaveReturnsShared(r) ==
    /\ successCount' = [x \in RunIds |-> successCount[x] + 1]
    /\ pc' = Upd(pc, r, "update")

\* saveContent returns to scrapeDoc, which counts the result as a success
SaveReturns(r) ==
    /\ successCount' = Upd(successCount, r, successCount[r] + 1)
    /\ pc' = Upd(pc, r, "update")

\* saveContent, first part: get the knowledge source unless this.sourceId is
\* set; without a source id it logs and returns
SaveSource(r) ==
    /\ pc[r] = "result"
    /\ Result(r).success
    /\ \E found \in {SourceRowId, None} :
          LET id == IF sourceId # None THEN sourceId ELSE found IN
          /\ sourceId' = id
          /\ IF id = None
             THEN SaveReturns(r)
             ELSE /\ pc' = Upd(pc, r, "lookup")
                  /\ UNCHANGED successCount
    /\ existing' = Upd(existing, r, Null)
    /\ UNCHANGED <<runs, concurrency, store, job, entries, i, inflight, results,
                   j, failedCount, error, groups, failedItems, lost, reported,
                   decided, calls, pauses,
                   handlerVars>>

\* saveContent, second part: select the entry of result.url, `data` being
\* what the select returns; unchanged content returns
SaveLookupStep(r, data) ==
    /\ pc[r] = "lookup"
    /\ existing' = Upd(existing, r, data)
    /\ IF Unchanged(data, ContentHash(Result(r)))
       THEN /\ SaveReturns(r)
            /\ decided' = Count(r, "unchanged")
       ELSE /\ pc' = Upd(pc, r, "write")
            /\ UNCHANGED <<successCount, decided>>
    /\ UNCHANGED <<runs, concurrency, sourceId, store, job, entries, i, inflight,
                   results, j, failedCount, error, groups, failedItems, lost,
                   reported, calls, pauses,
                   handlerVars>>

\* the select returns the entry of the url; data is null when there is
\* none, and when the select fails
SaveLookup(r) ==
    /\ pc[r] = "lookup"
    /\ \E data \in {store[Result(r).url], Null} : SaveLookupStep(r, data)

\* the row written by .update(contentData).eq('id', existing.id) or by
\* .insert(contentData); url is unique in knowledge_content, so an insert for
\* a url that has an entry is refused
Written(st, ex, result) ==
    IF ex # Null \/ st[result.url] = Null
    THEN [st EXCEPT ![result.url] = ContentData(result)]
    ELSE st

\* saveContent, third part: update the existing entry or insert a new one
SaveWriteStep(r, applied) ==
    /\ pc[r] = "write"
    /\ store' = IF applied THEN Written(store, existing[r], Result(r)) ELSE store
    /\ decided' = IF store' = store THEN decided
                  ELSE Count(r, IF existing[r] # Null THEN "changed" ELSE "new")
    /\ SaveReturns(r)
    /\ UNCHANGED <<runs, concurrency, sourceId, job, entries, i, inflight,
                   results, j, failedCount, existing, error, groups,
                   failedItems, lost, reported, calls, pauses,
                   handlerVars>>

\* the store applies the write, or fails, which saveContent does not notice
SaveWrite(r) == \E applied \in BOOLEAN : SaveWriteStep(r, applied)

\* saveContent's catch block: an exception of the store client is logged
SaveThrows(r) ==
    /\ pc[r] \in {"lookup", "write"}
    /\ SaveReturns(r)
    /\ UNCHANGED <<runs, concurrency, sourceId, store, job, entries, i, inflight,
                   results, j, failedCount, existing, error, groups,
                   failedItems, lost, reported, decided, calls, pauses,
                   handlerVars>>

\* await this.updateJob(jobId, {urls_processed, urls_failed, ...})
UpdateProgress(r) ==
    /\ pc[r] = "update"
    /\ \E applied \in BOOLEAN :
          UpdateJob(r, ProgressUpdates(successCount[r], failedCount[r], Total(r)),
                    applied)
    /\ reported' = Upd(reported, r,
           Append(reported[r], Processed(successCount[r], failedCount[r])))
    /\ pc' = Upd(pc, r, "callback")
    /\ UNCHANGED <<runs, concurrency, sourceId, store, entries, i, inflight,
                   results, j, successCount, failedCount, existing, error,
                   groups, failedItems, decided, pauses,
                   handlerVars>>

\* if (onProgress) onProgress(processed, total): no callback, or it returns;
\* the inner loop goes to the next result of the batch or ends
OnProgress(r) ==
    /\ pc[r] = "callback"
    /\ IF j[r] < i[r] + Len(Batch(i[r], concurrency, Total(r)))
       THEN /\ j' = Upd(j, r, j[r] + 1)
            /\ pc' = Upd(pc, r, "result")
       ELSE /\ pc' = Upd(pc, r, "batchEnd")
            /\ UNCHANGED j
    /\ UNCHANGED <<runs, concurrency, sourceId, store, job, entries, i, inflight,
                   results, successCount, failedCount, existing, error, groups,
                   failedItems, lost, reported, decided, calls, pauses,
                   handlerVars>>

\* onProgress throws: nothing in scrapeDoc catches it, scrapeDoc rejects
OnProgressThrows(r) ==
    /\ pc[r] = "callback"
    /\ pc' = Upd(pc, r, "rejected")
    /\ error' = Upd(error, r, "CallbackError")
    /\ UNCHANGED <<runs, concurrency, sourceId, store, job, entries, i, inflight,
                   results, j, successCount, failedCount, existing, groups,
                   failedItems, lost, reported, decided, calls, pauses,
                   handlerVars>>

\* if (i + concurrency < entries.length) await this.delay(delayMs); i += concurrency
Delay(r) ==
    /\ pc[r] = "batchEnd"
    /\ MoreBatches(i[r], concurrency, Total(r))
    /\ pauses' = Upd(pauses, r, pauses[r] + 1)
    /\ i' = Upd(i, r, i[r] + concurrency)
    /\ pc' = Upd(pc, r, "loop")
    /\ UNCHANGED <<runs, concurrency, sourceId, store, job, entries, inflight,
                   results, j, successCount, failedCount, existing, error,
                   groups, failedItems, lost, reported, decided, calls,
                   handlerVars>>

\* the last batch: no delay; i += concurrency
NoDelay(r) ==
    /\ pc[r] = "batchEnd"
    /\ ~MoreBatches(i[r], concurrency, Total(r))
    /\ i' = Upd(i, r, i[r] + concurrency)
    /\ pc' = Upd(pc, r, "loop")
    /\ UNCHANGED <<runs, concurrency, sourceId, store, job, entries, inflight,
                   results, j, successCount, failedCount, existing, error,
                   groups, failedItems, lost, reported, decided, calls,
                   pauses,
                   handlerVars>>

\* loop test false: await this.updateJob(jobId, {status: 'completed', ...})
\* and return {success, failed, total}
Complete(r) ==
    /\ pc[r] = "loop"
    /\ ~LoopCond(i[r], Total(r))
    /\ \E applied \in BOOLEAN : UpdateJob(r, CompleteUpdates, applied)
    /\ pc' = Upd(pc, r, "done")
    /\ UNCHANGED <<runs, concurrency, sourceId, store, entries, i, inflight,
                   results, j, successCount, failedCount, existing, error,
                   groups, failedItems, reported, decided, pauses,
                   handlerVars>>

----------------------------------------------------------------------------
(* The caller of scrapeDoc *)

\* fail(job, message): the rejection of scrapeDoc is recorded in the job
CallerFail(r) ==
    /\ pc[r] = "rejected"
    /\ job' = Upd(job, r, Merge(job[r],
                 [status |-> "failed", error_message |-> error[r],
                  completed_at |-> "now"]))
    /\ pc' = Upd(pc, r, "failed")
    /\ UNCHANGED <<runs, concurrency, sourceId, store, entries, i, inflight,
                   results, j, successCount, failedCount, existing, error,
                   groups, failedItems, lost, reported, decided, calls,
                   pauses,
                   handlerVars>>

----------------------------------------------------------------------------

Next ==
    \/ \E r \in runs : GetDocEntries(r)
    \/ \E r \in runs : GetDocEntriesThrows(r)
    \/ \E r \in runs : Start(r)
    \/ \E r \in runs : Dispatch(r)
    \/ \E r \in runs : ScrapePageOk(r)
    \/ \E r \in runs : ScrapePageFails(r)
    \/ \E r \in runs : ResultFailed(r)
    \/ \E r \in runs : SaveSource(r)
    \/ \E r \in runs : SaveLookup(r)
    \/ \E r \in runs : SaveWrite(r)
    \/ \E r \in runs : SaveThrows(r)
    \/ \E r \in runs : UpdateProgress(r)
    \/ \E r \in runs : OnProgress(r)
    \/ \E r \in runs : OnProgressThrows(r)
    \/ \E r \in runs : Delay(r)
    \/ \E r \in runs : NoDelay(r)
    \/ \E r \in runs : Complete(r)
    \/ \E r \in runs : CallerFail(r)

Spec == Init /\ [][Next]_vars

\* an external cancellation request while scrapeDoc runs: the job is set to
\* cancelled by a party other than the scraper
Cancel(r) ==
    /\ pc[r] \in {"loop", "fetching", "result", "lookup", "write", "update",
                  "callback", "batchEnd"}
    /\ job[r].status = "running"
    /\ job' = Upd(job, r, Merge(job[r], [status |-> "cancelled"]))
    /\ UNCHANGED <<runs, concurrency, sourceId, store, pc, entries, i, inflight,
                   results, j, successCount, failedCount, existing, error,
                   groups, failedItems, lost, reported, decided, calls,
                   pauses,
                   handlerVars>>

NextCancel ==
    \/ Next
    \/ \E r \in runs : Cancel(r)

\* the runs of scrapeDoc with cancellation requests from outside
SpecCancel == Init /\ [][NextCancel]_vars

\* the runs of a scraper constructed with any integer concurrency
InitSigned == InitWith({1}, SignedConfigs)

SpecSigned == InitSigned /\ [][Next]_vars

\* two scrapeDoc calls on one scraper, the store empty or holding an entry
\* for every url
InitTwo ==
    /\ InitWith({1, 2}, {Null, [concurrency |-> 1]})
    /\ \E full \in BOOLEAN : \A u \in Urls : (store[u] # Null) = full

\* the steps of two interleaved runs whose stores answer: every job update
\* is applied and every select returns the entry of the url, and nothing
\* throws; fetches may fail, the source may be missing, writes may be lost
NextTwo ==
    \/ \E r \in runs : GetDocEntries(r)
    \/ \E r \in runs : Start(r) /\ lost' = lost
    \/ \E r \in runs : Dispatch(r)
    \/ \E r \in runs : ScrapePageOk(r)
    \/ \E r \in runs : ScrapePageFails(r)
    \/ \E r \in runs : ResultFailed(r)
    \/ \E r \in runs : SaveSource(r)
    \/ \E r \in runs : pc[r] = "lookup"
                          /\ SaveLookupStep(r, store[Result(r).url])
    \/ \E r \in runs : SaveWrite(r)
    \/ \E r \in runs : UpdateProgress(r) /\ lost' = lost
    \/ \E r \in runs : OnProgress(r)
    \/ \E r \in runs : Delay(r)
    \/ \E r \in runs : NoDelay(r)
    \/ \E r \in runs : Complete(r) /\ lost' = lost

SpecTwo == InitTwo /\ [][NextTwo]_vars

----------------------------------------------------------------------------
(* api/scrape.js: the cron handler *)

\* process.env.CRON_SECRET
CronSecret == "secret"

\* `Bearer ${process.env.CRON_SECRET}`
Bearer(token) == <<"Bearer ", token>>

Methods == {"POST", "GET", "PUT", "DELETE"}

\* values of req.headers.authorization; Null is a request without the header
Authorizations == {Bearer(CronSecret), Bearer("other"), <<CronSecret>>, Null}

\* DOCS_TO_SCRAPE, the first sets of the list
DocsToScrape == <<"react", "typescript">>

\* const batchSize = 50, scaled down
BatchSize == 2

\* a request arrives
InitHandler ==
    /\ InitScraper({}, {Null})
    /\ req \in [method : Methods, authorization : Authorizations]
    /\ hpc = "method"
    /\ HandlerLocals

Send(status, body) ==
    /\ res' = [status |-> status, body |-> body]
    /\ hpc' = "sent"

Logged(entry) == log' = Append(log, entry)

\* if (req.method !== 'POST' && req.method !== 'GET') return 405
CheckMethod ==
    /\ hpc = "method"
    /\ IF req.method # "POST" /\ req.method # "GET"
       THEN Send(405, [error |-> "Method not allowed"])
       ELSE /\ hpc' = "auth"
            /\ UNCHANGED res
    /\ UNCHANGED <<scraperVars, req, source, docIndex, indexEntries, batchStart,
                   totalScraped, totalErrors, upserted, log>>

\* mutant of CheckAuthorization: the header is not compared
CheckAuthorizationOpen ==
    /\ hpc = "auth"
    /\ hpc' = "source"
    /\ UNCHANGED <<scraperVars, req, res, source, docIndex, indexEntries,
                   batchStart, totalScraped, totalErrors, upserted, log>>

\* if (req.headers.authorization !== `Bearer ${CRON_SECRET}`) return 401
CheckAuthorization ==
    /\ hpc = "auth"
    /\ IF req.authorization # Bearer(CronSecret)
       THEN Send(401, [error |-> "Unauthorized"])
       ELSE /\ hpc' = "source"
            /\ UNCHANGED res
    /\ UNCHANGED <<scraperVars, req, source, docIndex, indexEntries, batchStart,
                   totalScraped, totalErrors, upserted, log>>

\* the upsert of the DevDocs row of knowledge_sources: the row comes back,
\* or sourceError is set (500), or the client throws (outer catch, 500)
UpsertSource ==
    /\ hpc = "source"
    /\ Logged([op |-> "upsertSource"])
    /\ \E outcome \in {"row", "error", "throws"} :
          IF outcome = "row"
          THEN /\ source' = [id |-> SourceRowId, last_scrape_count |-> 0,
                             last_scrape_errors |-> 0]
               /\ docIndex' = 1
               /\ hpc' = "docs"
               /\ UNCHANGED res
          ELSE /\ Send(500, [error |-> IF outcome = "error"
                                       THEN "Failed to create source"
                                       ELSE "thrown"])
               /\ UNCHANGED <<source, docIndex>>
    /\ UNCHANGED <<scraperVars, req, indexEntries, batchStart, totalScraped,
                   totalErrors, upserted>>

\* for (const docSlug of DOCS_TO_SCRAPE): the next set, or the loop is over
NextDoc ==
    /\ hpc = "docs"
    /\ hpc' = IF docIndex <= Len(DocsToScrape) THEN "index" ELSE "stats"
    /\ UNCHANGED <<scraperVars, req, res, source, docIndex, indexEntries,
                   batchStart, totalScraped, totalErrors, upserted, log>>

\* mutant of SetFailed: the error ends the loop over the sets
SetFailedEndsLoop ==
    /\ totalErrors' = totalErrors + 1
    /\ docIndex' = Len(DocsToScrape) + 1
    /\ hpc' = "docs"

\* the catch block of the set, and `continue`: one more error, next set
SetFailed ==
    /\ totalErrors' = totalErrors + 1
    /\ docIndex' = docIndex + 1
    /\ hpc' = "docs"

\* fetch of the set's index.json: not OK, or fetch / json() throws, or the
\* index arrives with n entries
FetchIndex ==
    /\ hpc = "index"
    /\ \/ /\ Logged([op |-> "fetchIndex", doc |-> docIndex, ok |-> FALSE])
          /\ SetFailed
          /\ UNCHANGED <<indexEntries, batchStart>>
       \/ \E n \in 0..MaxIndexEntries :
             /\ Logged([op |-> "fetchIndex", doc |-> docIndex, ok |-> TRUE,
                        entries |-> n])
             /\ indexEntries' = n
             /\ batchStart' = 0
             /\ hpc' = "batch"
             /\ UNCHANGED <<totalErrors, docIndex>>
    /\ UNCHANGED <<scraperVars, req, res, source, totalScraped, upserted>>

\* entries.slice(i, i + batchSize), as the positions of its entries
HandlerBatch(iv, n) == (iv + 1)..Min(iv + BatchSize, n)

\* one batch: the upsert of its records succeeds or returns insertError, and
\* the loop goes on with the next batch
UpsertBatch ==
    /\ hpc = "batch"
    /\ batchStart < indexEntries
    /\ \E ok \in BOOLEAN :
          LET batch == HandlerBatch(batchStart, indexEntries) IN
          /\ Logged([op |-> "upsertBatch", doc |-> docIndex, ok |-> ok,
                     at |-> batchStart, size |-> Cardinality(batch)])
          /\ IF ok
             THEN /\ totalScraped' = totalScraped + Cardinality(batch)
                  /\ upserted' = upserted \cup {<<docIndex, x>> : x \in batch}
                  /\ UNCHANGED totalErrors
             ELSE /\ totalErrors' = totalErrors + 1
                  /\ UNCHANGED <<totalScraped, upserted>>
    /\ batchStart' = batchStart + BatchSize
    /\ UNCHANGED <<scraperVars, req, res, hpc, source, docIndex, indexEntries>>

\* building the records of a batch or the store client throws: the set's
\* catch block counts an error and the remaining batches of the set are left
BatchThrows ==
    /\ hpc = "batch"
    /\ batchStart < indexEntries
    /\ Logged([op |-> "batchThrows", doc |-> docIndex, at |-> batchStart])
    /\ SetFailed
    /\ UNCHANGED <<scraperVars, req, res, source, indexEntries, batchStart,
                   totalScraped, upserted>>

\* the batch loop is over: next set
SetCompleted ==
    /\ hpc = "batch"
    /\ ~(batchStart < indexEntries)
    /\ docIndex' = docIndex + 1
    /\ hpc' = "docs"
    /\ UNCHANGED <<scraperVars, req, res, source, indexEntries, batchStart,
                   totalScraped, totalErrors, upserted, log>>

\* the update of the source's statistics, whose error is not looked at, and
\* the 200 response; if the client throws, the outer catch answers 500
Respond ==
    /\ hpc = "stats"
    /\ Logged([op |-> "updateSource"])
    /\ \E outcome \in {"applied", "error", "throws"} :
          /\ source' = IF outcome = "applied"
                       THEN [source EXCEPT !.last_scrape_count = totalScraped,
                                           !.last_scrape_errors = totalErrors]
                       ELSE source
          /\ IF outcome = "throws"
             THEN Send(500, [error |-> "thrown"])
             ELSE Send(200, [success |-> TRUE, scraped |-> totalScraped,
                             errors |-> totalErrors])
    /\ UNCHANGED <<scraperVars, req, docIndex, indexEntries, batchStart,
                   totalScraped, totalErrors, upserted>>

NextHandler ==
    \/ CheckMethod
    \/ CheckAuthorization
    \/ UpsertSource
    \/ NextDoc
    \/ FetchIndex
    \/ UpsertBatch
    \/ BatchThrows
    \/ SetCompleted
    \/ Respond

\* one request to api/scrape
SpecHandler == InitHandler /\ [][NextHandler]_vars

----------------------------------------------------------------------------
(* Properties of the job record *)

\* comparisons of a progress_percentage num/den
PctEquals(p, processed, total) == p.num * total = 100 * processed * p.den
PctInRange(p) == p.den > 0 /\ 0 <= p.num /\ p.num <= 100 * p.den

\* C1: in every state of the job record, the number of items processed is
\* the number succeeded plus the number failed:
\* urls_processed = items_scraped + urls_failed.
C1_ProcessedIsSucceededPlusFailed ==
    \A r \in runs :
        job[r].urls_processed = job[r].items_scraped + job[r].urls_failed

\* a job record that shows both successes and failures
C1_Witness ==
    \E r \in runs :
        /\ job[r].items_scraped >= 1
        /\ job[r].urls_failed >= 1
        /\ job[r].urls_processed = Total(r)

\* C2: in every state of the job record the progress percentage is 0 while
\* the total is unknown, is 100 * processed / total once the total is known,
\* and lies between 0 and 100; a record with processed = total > 0 shows 100.
C2_ProgressFollowsTotal ==
    \A r \in runs :
        LET rec == job[r] IN
        /\ rec.total_urls = 0 => rec.progress_percentage.num = 0
        /\ rec.total_urls > 0 =>
              PctEquals(rec.progress_percentage, rec.urls_processed, rec.total_urls)
        /\ PctInRange(rec.progress_percentage)

\* C3: every crawl run puts its job into one terminal status: when the run
\* is over (scrapeDoc has returned, or has rejected and its caller has
\* handled the rejection), the job is completed, failed or cancelled.
C3_RunEndsInTerminalStatus ==
    \A r \in runs :
        pc[r] \in {"done", "failed"} => job[r].status \in Terminal

\* C4: every status change applied to a job follows pending -> running ->
\* completed or failed: a job becomes running only from pending and becomes
\* completed only from running.
C4_StatusFollowsStateMachine ==
    [][\A r \in runs :
          /\ (job[r].status' = "running" /\ job[r].status # "running")
                => job[r].status = "pending"
          /\ (job[r].status' = "completed" /\ job[r].status # "completed")
                => job[r].status = "running"]_vars

----------------------------------------------------------------------------
(* Properties of the batch loop *)

RECURSIVE Concat(_)
Concat(seqs) == IF seqs = <<>> THEN <<>> ELSE Head(seqs) \o Concat(Tail(seqs))

CeilDiv(n, k) == (n + k - 1) \div k

\* C6: page failures never abort the run: whatever set F of the n items
\* fails to fetch, the run that returns has an outcome for all n items,
\* exactly |F| of them failed, went through every batch and reported every
\* item, and its job (in a run whose job updates the store applied) is
\* completed with these counts.
C6_PageFailuresAreIsolated ==
    \A r \in runs :
        pc[r] = "done" =>
           /\ Processed(successCount[r], failedCount[r]) = Total(r)
           /\ failedCount[r] = Cardinality(failedItems[r])
           /\ Len(reported[r]) = Total(r)
           /\ Len(Concat(groups[r])) = Total(r)
           /\ ~lost[r] =>
                 /\ job[r].status = "completed"
                 /\ job[r].urls_processed = Total(r)
                 /\ job[r].urls_failed = Cardinality(failedItems[r])

\* a completed run of two batches with a failed page in the first batch and
\* a page saved after it
C6_Witness ==
    \E r \in runs :
        /\ pc[r] = "done"
        /\ 1 \in failedItems[r]
        /\ successCount[r] >= 1
        /\ Len(groups[r]) >= 2
        /\ job[r].status = "completed"
        /\ job[r].urls_failed = Cardinality(failedItems[r])

\* C7: for concurrency k and n items the loop dispatches ceil(n/k) groups,
\* consecutive disjoint slices in manifest order covering every item, each of
\* size k except possibly the last, which is smaller and non-empty.
C7_BatchesPartitionTheManifest ==
    \A r \in runs :
        LET g == groups[r]
            all == Concat(g)
        IN  /\ all = [x \in 1..Len(all) |-> x]
            /\ \A b \in 1..Len(g) :
                  /\ Len(g[b]) >= 1
                  /\ Len(g[b]) <= concurrency
                  /\ b < Len(g) => Len(g[b]) = concurrency
            /\ pc[r] = "done" =>
                  /\ Len(g) = CeilDiv(Total(r), concurrency)
                  /\ Len(all) = Total(r)

\* a finished run whose last group is smaller than the others
C7_Witness ==
    \E r \in runs :
        /\ pc[r] = "done"
        /\ Len(groups[r]) = 2
        /\ Len(groups[r][1]) = 2
        /\ Len(groups[r][2]) = 1

\* C8: batches are sequential: while a fetch of a batch may be in flight,
\* every item of the earlier batches has been fetched, saved and reported to
\* the job, and results are processed only when no fetch is in flight.
C8_BatchesAreSequential ==
    \A r \in runs :
        /\ (pc[r] = "fetching" \/ inflight[r] # {}) =>
              /\ groups[r] # <<>>
              /\ i[r] = Len(Concat(SubSeq(groups[r], 1, Len(groups[r]) - 1)))
              /\ Processed(successCount[r], failedCount[r]) = i[r]
              /\ Len(reported[r]) = i[r]
              /\ \A x \in inflight[r] : x > i[r]
        /\ pc[r] \in {"result", "lookup", "write", "update", "callback",
                      "batchEnd", "loop", "done"} => inflight[r] = {}

\* a second batch in flight
C8_Witness ==
    \E r \in runs :
        /\ pc[r] = "fetching"
        /\ Len(groups[r]) = 2
        /\ i[r] = 2
        /\ Cardinality(inflight[r]) = 1

\* C9: the number of page fetches of a run in flight is at most the
\* configured concurrency.
C9_InFlightAtMostConcurrency ==
    \A r \in runs : Cardinality(inflight[r]) <= concurrency

\* a full batch in flight
C9_Witness ==
    \E r \in runs :
        /\ concurrency >= 2
        /\ Cardinality(inflight[r]) = concurrency
        /\ Total(r) > concurrency

----------------------------------------------------------------------------
(* Properties of saveContent *)

\* the decision for a url and a digest, given the store
Decision(st, url, digest) ==
    IF st[url] = Null THEN "New"
    ELSE IF st[url].content_hash = digest THEN "Unchanged"
    ELSE "Changed"

\* C10: the dedup decision depends only on the url and the digest of the
\* body text: when the store answers the lookup and applies the write,
\* saveContent writes nothing exactly when the decision is Unchanged, inserts
\* the entry when it is New and updates the entry of the url with the new
\* content and fingerprint when it is Changed.
C10_DedupDecision ==
    [][\A r \in runs :
          /\ (pc[r] = "lookup" /\ SaveLookupStep(r, store[Result(r).url])) =>
                /\ (pc[r]' = "update") <=>
                      Decision(store, Result(r).url, Sha256(Result(r).content))
                         = "Unchanged"
                /\ store' = store
          /\ (pc[r] = "write" /\ existing[r] = store[Result(r).url]
                /\ SaveWriteStep(r, TRUE)) =>
                /\ Decision(store, Result(r).url, Sha256(Result(r).content))
                      \in {"New", "Changed"}
                /\ (existing[r] = Null) <=>
                      Decision(store, Result(r).url, Sha256(Result(r).content))
                         = "New"
                /\ store' = [store EXCEPT ![Result(r).url] =
                      [url |-> Result(r).url, content |-> Result(r).content,
                       code_snippets |-> Result(r).codeSnippets,
                       content_hash |-> Sha256(Result(r).content)]]]_vars

\* a Changed page whose entry was updated, and an Unchanged page that
\* differs from its entry in the code blocks only
C10_Witness ==
    \E r \in runs :
        /\ pc[r] = "update"
        /\ j[r] = 2
        /\ Result(r).success
        /\ existing[r] # Null
        /\ existing[r].content_hash = Sha256(Result(r).content)
        /\ existing[r].code_snippets # Result(r).codeSnippets
        /\ store[Result(r).url] = existing[r]
        /\ results[r][1] # Null
        /\ results[r][1].success
        /\ store[results[r][1].url] # Null
        /\ store[results[r][1].url].content = "b"
        /\ store[results[r][1].url].content_hash = Sha256("b")

\* C11: unchanged results are not written: while saveContent handles a
\* result whose body text equals the body text of the entry stored for its
\* url, no step changes the content store, and once the lookup has returned
\* the entry no insert and no update is issued; so a run whose pages all
\* equal their entries leaves the store as it found it.
C11_UnchangedResultsAreNotWritten ==
    [][\A r \in runs :
          (/\ pc[r] \in {"result", "lookup", "write"}
           /\ Result(r).success
           /\ store[Result(r).url] # Null
           /\ store[Result(r).url].content = Result(r).content) =>
                /\ store' = store
                /\ existing'[r] # Null => pc'[r] # "write"]_vars

\* a finished run of two pages or more, all of them skipped as unchanged
C11_Witness ==
    \E r \in runs :
        /\ pc[r] = "done"
        /\ Total(r) >= 2
        /\ decided[r].unchanged = Total(r)
        /\ \A u \in Urls : store[u] # Null => store[u].content = "a"

\* C12: idempotence: a run that finds every page of its manifest unchanged
\* (the same manifest and pages run before) leaves on its job items_new = 0,
\* items_changed = 0 (the job field items_updated) and items_unchanged =
\* total.
C12_SecondRunCountsUnchanged ==
    \A r \in runs :
        (/\ pc[r] = "done"
         /\ ~lost[r]
         /\ Total(r) >= 1
         /\ decided[r].unchanged = Total(r)) =>
              /\ job[r].items_new = 0
              /\ job[r].items_updated = 0
              /\ job[r].items_unchanged = Total(r)

\* C13: a manifest of n entries whose pages all fetch and are all new to
\* the store ends completed with total = n, processed = n, items_new = n,
\* failed = 0 and progress = 100.
C13_AllNewRun ==
    \A r \in runs :
        (/\ pc[r] = "done"
         /\ ~lost[r]
         /\ Total(r) >= 1
         /\ decided[r].new = Total(r)) =>
              /\ job[r].status = "completed"
              /\ job[r].total_urls = Total(r)
              /\ job[r].urls_processed = Total(r)
              /\ job[r].items_new = Total(r)
              /\ job[r].urls_failed = 0
              /\ PctEquals(job[r].progress_percentage, 1, 1)

\* C14: an item whose persistence step fails is recorded as failed: an item
\* is counted as succeeded only when the store holds an entry for its url
\* carrying the fingerprint of its fetched body text.
C14_CountedSuccessIsStored ==
    [][\A r \in runs :
          successCount'[r] > successCount[r] =>
              /\ store'[Result(r).url] # Null
              /\ store'[Result(r).url].content_hash =
                    Sha256(Result(r).content)]_vars

\* C15: a run in which persistence failed for every item of every batch
\* (all pages fetched, none was inserted, updated or found unchanged) ends
\* failed with a recorded message after its first batch, and not completed.
C15_PersistenceFailureEscalates ==
    \A r \in runs :
        (/\ pc[r] = "done"
         /\ Total(r) >= 1
         /\ successCount[r] = Total(r)
         /\ decided[r] = NoneDecided) =>
              /\ job[r].status = "failed"
              /\ job[r].error_message # None
              /\ Len(groups[r]) = 1

\* the calls of updateJob of run r so far that set the job to running
StartCalls(r) ==
    {k \in DOMAIN calls[r] :
        "status" \in DOMAIN calls[r][k] /\ calls[r][k].status = "running"}

\* C16: start (the job set to running with its total and the start
\* timestamp) is issued exactly once in every run, as the first update of the
\* job, before any page is fetched and before any item outcome is recorded.
C16_StartOnceAndFirst ==
    \A r \in runs :
        /\ Cardinality(StartCalls(r)) <= 1
        /\ (\/ calls[r] # <<>>
            \/ groups[r] # <<>>
            \/ inflight[r] # {}
            \/ reported[r] # <<>>
            \/ pc[r] = "done") =>
                /\ StartCalls(r) = {1}
                /\ calls[r][1] = [total_urls |-> Total(r), status |-> "running",
                                  started_at |-> "now"]
        /\ (StartCalls(r) = {1} /\ ~lost[r]) =>
                /\ job[r].total_urls = Total(r)
                /\ job[r].started_at = "now"
                /\ job[r].status # "pending"

\* a finished run of two batches: one start, then the outcomes
C16_Witness ==
    \E r \in runs :
        /\ pc[r] = "done"
        /\ Len(groups[r]) = 2
        /\ Len(calls[r]) = Total(r) + 2
        /\ StartCalls(r) = {1}

\* C17: an outcome recorded against a job that is not running is rejected:
\* no step changes the counters or the progress of a job that is pending,
\* completed, failed, cancelled or paused.
C17_OutcomeNeedsRunningJob ==
    [][\A r \in runs :
          job[r].status # "running" =>
              /\ job'[r].urls_processed = job[r].urls_processed
              /\ job'[r].urls_failed = job[r].urls_failed
              /\ job'[r].items_scraped = job[r].items_scraped
              /\ job'[r].progress_percentage = job[r].progress_percentage]_vars

\* C18: once a cancellation is requested during a run, the batch in flight
\* finishes, no further batch is dispatched and the job stays cancelled;
\* it does not become completed.
C18_CancellationStopsRun ==
    [][\A r \in runs :
          job[r].status = "cancelled" =>
              /\ job'[r].status = "cancelled"
              /\ Len(groups'[r]) = Len(groups[r])]_vars

\* C19: the job updates of a run are issued one at a time and in manifest
\* order: the k-th outcome update is made for the k-th entry of the
\* manifest and carries processed = k, no step issues two updates, and the
\* progress callback is called after the k-th update with processed = k, so
\* that it sees 1, 2, ..., n.
C19_UpdatesOneAtATimeInOrder ==
    /\ [](\A r \in runs :
            /\ reported[r] = [k \in 1..Len(reported[r]) |-> k]
            /\ pc[r] = "callback" =>
                  /\ Processed(successCount[r], failedCount[r]) =
                        Len(reported[r])
                  /\ j[r] = Len(reported[r])
            /\ pc[r] = "done" => Len(reported[r]) = Total(r))
    /\ [][\A r \in runs :
            /\ Len(calls'[r]) <= Len(calls[r]) + 1
            /\ reported'[r] # reported[r] =>
                  /\ pc[r] = "update"
                  /\ j[r] = Len(reported'[r])]_vars

\* a run of two batches at its last callback, with a failed page among
\* the outcomes
C19_Witness ==
    \E r \in runs :
        /\ pc[r] = "callback"
        /\ Total(r) = 3
        /\ concurrency = 2
        /\ reported[r] = <<1, 2, 3>>
        /\ failedCount[r] = 1

\* C20: the progress percentage of the job record never decreases from one
\* state of the record to the next.
C20_ProgressNeverDecreases ==
    [][\A r \in runs :
          job[r].progress_percentage.num * job'[r].progress_percentage.den
             <= job'[r].progress_percentage.num
                   * job[r].progress_percentage.den]_vars

\* the record shows two of three entries processed, on the way to three
C20_Witness ==
    \E r \in runs :
        /\ Total(r) = 3
        /\ job[r].urls_processed = 2
        /\ PctEquals(job[r].progress_percentage, 2, 3)
        /\ Len(calls[r]) = 3
        /\ PctEquals(calls[r][2].progress_percentage, 1, 3)
        /\ ~lost[r]

\* C21: the pause between batches follows every batch except the last: a
\* finished run over n > 0 entries with concurrency k has paused
\* ceil(n/k) - 1 times and a run over an empty manifest never; every pause
\* is taken when all results of the batch are recorded and nothing is in
\* flight, and the next batch is dispatched after it.
C21_PauseBetweenBatchesOnly ==
    /\ [](\A r \in runs :
            /\ pauses[r] <= IF Total(r) = 0 THEN 0
                            ELSE CeilDiv(Total(r), concurrency) - 1
            /\ pc[r] = "done" =>
                  pauses[r] = IF Total(r) = 0 THEN 0
                              ELSE CeilDiv(Total(r), concurrency) - 1)
    /\ [][\A r \in runs :
            pauses'[r] # pauses[r] =>
                /\ pauses'[r] = pauses[r] + 1
                /\ pauses'[r] = Len(groups[r])
                /\ inflight[r] = {}
                /\ Len(reported[r]) = Len(Concat(groups[r]))
                /\ Len(reported[r]) < Total(r)
                /\ pc'[r] = "loop"
                /\ groups'[r] = groups[r]]_vars

\* a finished run of three entries in batches of two and one: one pause
C21_Witness ==
    \E r \in runs :
        /\ pc[r] = "done"
        /\ Total(r) = 3
        /\ concurrency = 2
        /\ pauses[r] = 1

\* C27: for every concurrency a scraper can be constructed with, the batch
\* loop of scrapeDoc terminates: every iteration moves the index i towards
\* entries.length, the loop body runs at most once per entry, and when the
\* loop has ended every manifest entry was passed to scrapePage exactly once.
C27_BatchLoopTerminates ==
    /\ [](\A r \in runs :
            /\ Len(groups[r]) <= Total(r)
            /\ pc[r] = "done" =>
                  Concat(groups[r]) = [x \in 1..Total(r) |-> x])
    /\ [][\A r \in runs : pc[r] = "batchEnd" => i'[r] > i[r]]_vars

\* the request carries 'Bearer ' followed by the cron secret
Authorized == req.authorization = <<"Bearer ", CronSecret>>

\* the claim C23 as stated: without the authorization header of the cron
\* secret the handler reads, writes and fetches nothing, and the request is
\* answered 401.
C23_UnauthorizedIs401 ==
    (hpc # "none" /\ ~Authorized) =>
        /\ log = <<>>
        /\ upserted = {}
        /\ source = Null
        /\ hpc = "sent" => res.status = 401

\* C23: without the authorization header of the cron secret the handler
\* reads, writes and fetches nothing; the request is answered 401, or 405
\* when its method is neither POST nor GET, the method being checked first.
C23_UnauthorizedTouchesNothing ==
    (hpc # "none" /\ ~Authorized) =>
        /\ log = <<>>
        /\ upserted = {}
        /\ source = Null
        /\ hpc = "sent" =>
              res.status = IF req.method \in {"POST", "GET"} THEN 401 ELSE 405

\* a POST with a bearer token that is not the secret, answered 401
C23_Witness ==
    /\ hpc = "sent"
    /\ req.method = "POST"
    /\ req.authorization = <<"Bearer ", "other">>
    /\ res.status = 401
    /\ log = <<>>

\* C24: the handler only allows POST: a request with any other method is
\* answered 405 and triggers no scraping.
C24_OnlyPostAllowed ==
    (hpc # "none" /\ req.method # "POST") =>
        /\ log = <<>>
        /\ upserted = {}
        /\ hpc = "sent" => res.status = 405

\* the entries of the handler's log with the given operation
LogOf(op) == SelectSeq(log, LAMBDA e : e.op = op)

Failed(e) ==
    \/ e.op = "batchThrows"
    \/ e.op \in {"fetchIndex", "upsertBatch"} /\ ~e.ok

SumSizes(seq) ==
    LET RECURSIVE sum(_)
        sum(q) == IF q = <<>> THEN 0 ELSE Head(q).size + sum(Tail(q))
    IN sum(seq)

\* the sizes of the batches whose upsert succeeded, summed
UpsertedSize == SumSizes(SelectSeq(LogOf("upsertBatch"), LAMBDA e : e.ok))

\* the offsets of the batches of an index of n entries
BatchOffsets(n) == {x \in 0..(n - 1) : x % BatchSize = 0}

\* the offsets of the batches of set d that were upserted or tried
BatchesTried(d) ==
    {LogOf("upsertBatch")[k].at :
        k \in {x \in DOMAIN LogOf("upsertBatch") :
                  LogOf("upsertBatch")[x].doc = d}}

\* every configured set was attempted once, in list order
SetsInOrder ==
    /\ Len(LogOf("fetchIndex")) = Len(DocsToScrape)
    /\ \A k \in DOMAIN LogOf("fetchIndex") : LogOf("fetchIndex")[k].doc = k

\* the claim C25 as stated: once the source is obtained every set is
\* attempted once in list order, a failure counts as an error and prevents
\* no later set and no later batch, and the handler answers 200 with
\* scraped the total size of the batches whose upsert succeeded.
C25_NoFailureStopsLaterWork ==
    (hpc = "sent" /\ source # Null) =>
        /\ SetsInOrder
        /\ \A k \in DOMAIN LogOf("fetchIndex") :
              LogOf("fetchIndex")[k].ok =>
                 BatchesTried(k) = BatchOffsets(LogOf("fetchIndex")[k].entries)
        /\ res.status = 200
        /\ res.body.scraped = UpsertedSize
        /\ res.body.errors = Len(SelectSeq(log, Failed))

\* C25: once the source is obtained every set is attempted once in list
\* order and every failure counts as an error; a failed index fetch or a
\* failed upsert prevents no later set and no later batch, a throw while a
\* set's batches are processed ends that set only; the handler answers 200
\* with scraped the total size of the batches whose upsert succeeded, unless
\* the final update of the source throws, which is answered 500.
C25_FailuresAreCountedAndIsolated ==
    (hpc = "sent" /\ source # Null) =>
        /\ SetsInOrder
        /\ \A k \in DOMAIN LogOf("fetchIndex") :
              LogOf("fetchIndex")[k].ok =>
                 LET all == BatchOffsets(LogOf("fetchIndex")[k].entries)
                     thrown == {e.at : e \in
                                  {LogOf("batchThrows")[x] :
                                     x \in {y \in DOMAIN LogOf("batchThrows") :
                                              LogOf("batchThrows")[y].doc = k}}}
                 IN BatchesTried(k) =
                       {x \in all : \A t \in thrown : x < t}
        /\ totalScraped = UpsertedSize
        /\ totalErrors = Len(SelectSeq(log, Failed))
        /\ Cardinality(upserted) = UpsertedSize
        /\ res.status \in {200, 500}
        /\ res.status = 200 =>
              /\ res.body.scraped = totalScraped
              /\ res.body.errors = totalErrors

\* a 200 response after a failed index fetch of the first set and, in the
\* second set, a failed upsert followed by a successful one
C25_Witness ==
    /\ hpc = "sent"
    /\ res.status = 200
    /\ res.body.errors = 2
    /\ res.body.scraped = 1
    /\ Len(LogOf("fetchIndex")) = 2
    /\ ~LogOf("fetchIndex")[1].ok
    /\ Len(LogOf("upsertBatch")) = 2
    /\ ~LogOf("upsertBatch")[1].ok

\* the calls of updateJob of run r that record an outcome
OutcomeCalls(r) ==
    SelectSeq(calls[r], LAMBDA u : "urls_processed" \in DOMAIN u)

\* C22: interleaved runs with different job ids share no job state: a step
\* changes the job of the run that takes it and no other, the k-th outcome
\* update of a run carries processed = k, the failures and successes of the
\* run's own first k entries and progress k of the run's own total, and a
\* finished job shows the counts of its own manifest.
C22_RunsShareNoJobState ==
    /\ [](\A r \in runs :
            /\ \A k \in DOMAIN OutcomeCalls(r) :
                  /\ OutcomeCalls(r)[k].urls_processed = k
                  /\ OutcomeCalls(r)[k].urls_failed =
                        Cardinality(failedItems[r] \cap 1..k)
                  /\ OutcomeCalls(r)[k].items_scraped =
                        k - Cardinality(failedItems[r] \cap 1..k)
                  /\ PctEquals(OutcomeCalls(r)[k].progress_percentage,
                               k, Total(r))
            /\ job[r].urls_processed = job[r].items_scraped + job[r].urls_failed
            /\ job[r].urls_processed <= Total(r)
            /\ PctInRange(job[r].progress_percentage)
            /\ pc[r] = "done" =>
                  /\ job[r].status = "completed"
                  /\ job[r].total_urls = Total(r)
                  /\ job[r].urls_processed = Total(r)
                  /\ job[r].urls_failed = Cardinality(failedItems[r]))
    /\ [][\A r \in runs : job'[r] # job[r] => pc'[r] # pc[r]]_vars

\* both runs have finished, one over two pages that were fetched and the
\* other over one page that failed
C22_Witness ==
    /\ pc[1] = "done"
    /\ pc[2] = "done"
    /\ job[1].urls_processed = 2
    /\ job[1].urls_failed = 0
    /\ job[2].urls_processed = 1
    /\ job[2].urls_failed = 1

====
